---------------------------- MODULE Spec2Model ----------------------------
(***************************************************************************)
(* SpiderStamp: the evidence extraction and scoring engine of              *)
(* src/spider_report.py.                                                   *)
(*                                                                         *)
(* Texts are sequences of lower-case words instead of character strings.   *)
(* A taxonomy term is a string naming one or more words (TermWords); a     *)
(* term occurs in a text where its words occur consecutively, the last     *)
(* word being allowed to continue ("spider" occurs in "spider-man"), which *)
(* is Python's substring test `term in text` on this vocabulary.  Windows  *)
(* of extract_context_snippets are counted in words.                       *)
(*                                                                         *)
(* Line 473 of src/spider_report.py ends in a stray `s` after the call of  *)
(* score_confidence; the model reads the statement without it.             *)
(***************************************************************************)
EXTENDS Integers, Sequences, FiniteSets, TLC

VARIABLES
    pc,           \* position in build_report / in the function under study
    movie,        \* the resolved movie passed to build_report
    imdb_ev,      \* record returned by imdb_parental_guide_evidence
    wiki_i,       \* index of the candidate wikipedia_evidence is trying
    wiki_ev,      \* record returned by wikipedia_evidence
    raw_results,  \* search_and_fetch_evidence: concatenated query results
    results,      \* search_and_fetch_evidence: deduplicated, ranked results
    page_i,       \* search_and_fetch_evidence: index into results[:max_pages]
    web_evs,      \* search_and_fetch_evidence: evidences
    fetch_log,    \* every call of fetch(url) so far, with its outcome
    report,       \* the dict build_report returns
    inp,          \* provider study: the response the provider was given
    rec           \* provider study: the record the provider emitted

vars == <<pc, movie, imdb_ev, wiki_i, wiki_ev, raw_results, results, page_i,
          web_evs, fetch_log, report, inp, rec>>

---------------------------------------------------------------------------
(* Bounds of the model *)

\* longest page text, in words, of the provider study
MaxTextLen == 3

\* context window of extract_context_snippets, in words
Window == 1

\* max_pages handed to search_and_fetch_evidence
MaxPages == 2

\* longest concatenated list of search results
MaxRaw == 4

---------------------------------------------------------------------------
(* Python values *)

\* an optional value: None, or Some(x)
None == <<>>

Some(x) == <<x>>

Min(a, b) == IF a <= b THEN a ELSE b

Max(a, b) == IF a >= b THEN a ELSE b

\* all sequences over S of length at most n
BoundedSeq(S, n) == UNION {[1..k -> S] : k \in 0..n}

RECURSIVE Concat(_)
\* " ".join(snips): the snippets one after the other
Concat(ss) == IF ss = <<>> THEN <<>> ELSE Head(ss) \o Concat(Tail(ss))

RECURSIVE SumSeq(_)
SumSeq(s) == IF s = <<>> THEN 0 ELSE Head(s) + SumSeq(Tail(s))

---------------------------------------------------------------------------
(* Detection vocabulary (a sample of each table, in source order) *)

CORE_SPIDER_TERMS == <<"spider", "giant spider">>

FORCED_SPIDER_PRESENCE == [id \in {"tt0417741"} |-> TRUE]

SUPPORT_TERMS == <<"webs">>

DECEASED_CONTEXT_TERMS == <<"dead">>

EYE_CONTEXT_TERMS == <<"eyes">>

SEVERITY_TERMS == [t \in {"giant", "swarm"} |-> IF t = "giant" THEN 2 ELSE 3]

NEGATIVE_CONTEXT == <<"spider-man">>

PREFERRED_DOMAINS ==
    [h \in {<<"imdb", "com">>, <<"wikipedia", "org">>, <<"doesthedogdie", "com">>} |->
        CASE h = <<"imdb", "com">> -> 5
          [] h = <<"wikipedia", "org">> -> 4
          [] OTHER -> 3]

\* the words of each term
TermWords ==
    [t \in {"spider", "giant spider", "webs", "dead", "eyes", "giant", "swarm",
            "spider-man"} |->
        IF t = "giant spider" THEN <<"giant", "spider">> ELSE <<t>>]

\* <<w, t>>: word w contains the string t without being t
WordContains == {<<"spider-man", "spider">>}

\* the vocabulary in the order Python's sorted() puts the strings
LexSorted == <<"dead", "eyes", "giant", "giant spider", "spider", "spider-man",
               "swarm", "webs">>

Range(s) == {s[i] : i \in 1..Len(s)}

\* sorted(S) for a set S of terms
Sorted(S) == SelectSeq(LexSorted, LAMBDA t : t \in S)

---------------------------------------------------------------------------
(* Helpers *)

\* markup elements that carry no visible text
HiddenElems == {"<script>spider</script>"}

clean_text(html) == SelectSeq(html, LAMBDA w : w \notin HiddenElems)

MatchAt(text, term, i) ==
    LET tw == TermWords[term] IN
    /\ i + Len(tw) - 1 <= Len(text)
    /\ \A k \in 1..Len(tw) :
          IF k = Len(tw)
          THEN text[i + k - 1] = tw[k] \/ <<text[i + k - 1], tw[k]>> \in WordContains
          ELSE text[i + k - 1] = tw[k]

\* text.find(term), 1-based; 0 when the term does not occur
Find(text, term) ==
    IF \E i \in 1..Len(text) : MatchAt(text, term, i)
    THEN CHOOSE i \in 1..Len(text) :
            /\ MatchAt(text, term, i)
            /\ \A j \in 1..(i - 1) : ~MatchAt(text, term, j)
    ELSE 0

\* term in text
Occurs(term, text) == Find(text, term) # 0

extract_hits(text) ==
    LET core_hits == Sorted({w \in Range(CORE_SPIDER_TERMS) : Occurs(w, text)})
        support_hits == Sorted({w \in Range(SUPPORT_TERMS) : Occurs(w, text)})
    IN  IF core_hits # <<>> THEN <<core_hits, support_hits>> ELSE <<core_hits, <<>>>>

RECURSIVE SnippetLoop(_, _, _, _, _)
SnippetLoop(text, terms, window, max_snips, snippets) ==
    IF terms = <<>> THEN snippets
    ELSE LET term == Head(terms)
             idx == Find(text, term)
         IN  IF idx = 0
             THEN SnippetLoop(text, Tail(terms), window, max_snips, snippets)
             ELSE LET start == Max(1, idx - window)
                      end == Min(Len(text), idx + Len(TermWords[term]) - 1 + window)
                      more == Append(snippets, SubSeq(text, start, end))
                  IN  IF Len(more) >= max_snips THEN more
                      ELSE SnippetLoop(text, Tail(terms), window, max_snips, more)

extract_context_snippets(text, terms, window, max_snips) ==
    SnippetLoop(text, terms, window, max_snips, <<>>)

has_any(text, terms) == \E i \in 1..Len(terms) : Occurs(terms[i], text)

is_deceased_context(snippets_text) == has_any(snippets_text, DECEASED_CONTEXT_TERMS)

has_eye_context(snippets_text) == has_any(snippets_text, EYE_CONTEXT_TERMS)

severity_score(text) ==
    LET found == {k \in DOMAIN SEVERITY_TERMS : Occurs(k, text)}
    IN  SumSeq([i \in 1..Len(Sorted(found)) |-> SEVERITY_TERMS[Sorted(found)[i]]])

\* netloc.lower().replace("www.", ""): a www label followed by a dot goes
HostOf(url) ==
    LET n == url.host
        keep == {i \in 1..Len(n) : ~(n[i] = "www" /\ i < Len(n))}
        F[i \in 0..Len(n)] ==
            IF i = 0 THEN <<>>
            ELSE IF i \in keep THEN Append(F[i - 1], n[i]) ELSE F[i - 1]
    IN  F[Len(n)]

\* domain_weight on the netloc as it stands, "www." kept
domain_weight_raw_netloc(url) ==
    IF url.host \in DOMAIN PREFERRED_DOMAINS THEN PREFERRED_DOMAINS[url.host] ELSE 0

domain_weight(url) ==
    IF HostOf(url) \in DOMAIN PREFERRED_DOMAINS THEN PREFERRED_DOMAINS[HostOf(url)] ELSE 0

---------------------------------------------------------------------------
(* Network responses *)

\* the words page texts are made of
Words == {"spider", "giant", "swarm", "webs", "dead", "eyes", "the"}

\* the markup of a page
Htmls == BoundedSeq(Words \cup HiddenElems, MaxTextLen)

\* what requests.get comes back with: a status and a body; status 0 stands
\* for a raised requests.RequestException (timeout, connection error)
Responses(bodies) ==
    [status : {200}, text : bodies] \cup [status : {0, 404}, text : {<<>>}]

fetch(resp) == IF resp.status # 200 THEN None ELSE Some(resp.text)

\* `not html`: None, or a 200 response with an empty body
Falsy(html) == html = None \/ html[1] = <<>>

ImdbIds == {"tt0417741", "tt0000001"}

PgUrl(imdb_id) == [host |-> <<"www", "imdb", "com">>, path |-> imdb_id]

WikiPage == [host |-> <<"en", "wikipedia", "org">>, path |-> "page"]

NoUrl == [host |-> <<>>, path |-> ""]

\* the summary lookup's answer: a status (0: an exception) and the JSON's
\* extract and content_urls.desktop.page
WikiResponses(texts) ==
    [status : {200}, extract : texts, page : {WikiPage}]
        \cup [status : {0, 404}, extract : {<<>>}, page : {NoUrl}]

---------------------------------------------------------------------------
(* Evidence providers *)

NoEvidence(source, url, ok) ==
    [source |-> source, url |-> url, ok |-> ok,
     core_hits |-> <<>>, support_hits |-> <<>>, snippets |-> <<>>,
     severity |-> 0, deceased |-> FALSE, eye_context |-> FALSE]

imdb_parental_guide_evidence(imdb_id, html) ==
    LET url == PgUrl(imdb_id) IN
    IF Falsy(html) THEN NoEvidence("imdb_parentalguide", url, FALSE)
    ELSE
    LET text == clean_text(html[1])
        core == extract_hits(text)[1]
        support == extract_hits(text)[2]
    IN
    IF core = <<>> THEN NoEvidence("imdb_parentalguide", url, TRUE)
    ELSE
    LET hits_for_snips == core \o support
        snips == extract_context_snippets(text, hits_for_snips, Window, 4)
        snip_text == Concat(snips)
        deceased == is_deceased_context(snip_text)
        eye_ctx == has_eye_context(snip_text)
        sev0 == severity_score(snip_text)
        sev1 == IF eye_ctx /\ ~deceased THEN sev0 + 3 ELSE sev0
        sev == IF deceased THEN 0 ELSE sev1
    IN  [source |-> "imdb_parentalguide", url |-> url, ok |-> TRUE,
         core_hits |-> core, support_hits |-> support, snippets |-> snips,
         severity |-> sev, deceased |-> deceased, eye_context |-> eye_ctx]

\* a loop turn that ends in `continue` yields no record
Continue == None

\* wikipedia_candidate without the `if not core` return
wikipedia_candidate_no_core_return(data) ==
    IF data.status # 200 THEN Continue
    ELSE
    LET extract == data.extract
        page_url == data.page
    IN
    IF extract = <<>> THEN Continue
    ELSE
    LET core == extract_hits(extract)[1]
        support == extract_hits(extract)[2]
        hits_for_snips == core \o support
        snips == extract_context_snippets(extract, hits_for_snips, Window, 3)
        snip_text == Concat(snips)
        deceased == is_deceased_context(snip_text)
        eye_ctx == has_eye_context(snip_text)
        sev0 == severity_score(snip_text) + 2
        sev1 == IF eye_ctx /\ ~deceased THEN sev0 + 3 ELSE sev0
        sev == IF deceased THEN 0 ELSE sev1
    IN  Some([source |-> "wikipedia", url |-> page_url, ok |-> TRUE,
              core_hits |-> core, support_hits |-> support, snippets |-> snips,
              severity |-> sev, deceased |-> deceased, eye_context |-> eye_ctx])

\* one turn of the for loop of wikipedia_evidence, on the lookup's outcome
wikipedia_candidate(data) ==
    IF data.status # 200 THEN Continue
    ELSE
    LET extract == data.extract
        page_url == data.page
    IN
    IF extract = <<>> THEN Continue
    ELSE
    LET core == extract_hits(extract)[1]
        support == extract_hits(extract)[2]
    IN
    IF core = <<>> THEN Some(NoEvidence("wikipedia", page_url, TRUE))
    ELSE
    LET hits_for_snips == core \o support
        snips == extract_context_snippets(extract, hits_for_snips, Window, 3)
        snip_text == Concat(snips)
        deceased == is_deceased_context(snip_text)
        eye_ctx == has_eye_context(snip_text)
        sev0 == severity_score(snip_text) + 2
        sev1 == IF eye_ctx /\ ~deceased THEN sev0 + 3 ELSE sev0
        sev == IF deceased THEN 0 ELSE sev1
    IN  Some([source |-> "wikipedia", url |-> page_url, ok |-> TRUE,
              core_hits |-> core, support_hits |-> support, snippets |-> snips,
              severity |-> sev, deceased |-> deceased, eye_context |-> eye_ctx])

\* what wikipedia_evidence returns when no candidate yields a summary
wikipedia_unavailable == NoEvidence("wikipedia", NoUrl, FALSE)

\* web_page_evidence adding the domain weight after the deceased override
web_page_evidence_weight_last(r, html) ==
    LET url == r.url IN
    IF Falsy(html) THEN Continue
    ELSE
    LET text == clean_text(html[1])
        core == extract_hits(text)[1]
        support == extract_hits(text)[2]
    IN
    IF core = <<>> THEN Continue
    ELSE
    LET hits_for_snips == core \o support
        snips == extract_context_snippets(text, hits_for_snips, Window, 4)
        snip_text == Concat(snips)
        deceased == is_deceased_context(snip_text)
        eye_ctx == has_eye_context(snip_text)
        sev0 == severity_score(snip_text)
        sev1 == IF eye_ctx /\ ~deceased THEN sev0 + 3 ELSE sev0
        sev == (IF deceased THEN 0 ELSE sev1) + domain_weight(url)
    IN  Some([source |-> "web_page", url |-> url, title |-> r.title,
              core_hits |-> core, support_hits |-> support, snippets |-> snips,
              severity |-> sev, deceased |-> deceased, eye_context |-> eye_ctx])

\* one turn of the page loop of search_and_fetch_evidence: Continue, or
\* the evidence appended for result r whose page fetch returned html
web_page_evidence(r, html) ==
    LET url == r.url IN
    IF Falsy(html) THEN Continue
    ELSE
    LET text == clean_text(html[1])
        core == extract_hits(text)[1]
        support == extract_hits(text)[2]
    IN
    IF core = <<>> THEN Continue
    ELSE
    LET hits_for_snips == core \o support
        snips == extract_context_snippets(text, hits_for_snips, Window, 4)
        snip_text == Concat(snips)
        deceased == is_deceased_context(snip_text)
        eye_ctx == has_eye_context(snip_text)
        sev0 == severity_score(snip_text) + domain_weight(url)
        sev1 == IF eye_ctx /\ ~deceased THEN sev0 + 3 ELSE sev0
        sev == IF deceased THEN 0 ELSE sev1
    IN  Some([source |-> "web_page", url |-> url, title |-> r.title,
              core_hits |-> core, support_hits |-> support, snippets |-> snips,
              severity |-> sev, deceased |-> deceased, eye_context |-> eye_ctx])

---------------------------------------------------------------------------
(* search_and_fetch_evidence: deduplication and ranking *)

\* `not u`: href missing or empty
NoHref(u) == u = NoUrl

RECURSIVE DedupLoop(_, _, _)
DedupLoop(raw, seen, out) ==
    IF raw = <<>> THEN out
    ELSE LET r == Head(raw)
             u == r.url
         IN  IF NoHref(u) \/ u \in seen
             THEN DedupLoop(Tail(raw), seen, out)
             ELSE DedupLoop(Tail(raw), seen \cup {u}, Append(out, r))

Dedup(raw) == DedupLoop(raw, {}, <<>>)

core_bonus(item) ==
    IF has_any(item.title \o item.snippet, CORE_SPIDER_TERMS) THEN 1 ELSE 0

neg_penalty(item) ==
    IF has_any(item.title \o item.snippet, NEGATIVE_CONTEXT) THEN 1 ELSE 0

rank(item) == <<domain_weight(item.url), core_bonus(item), 0 - neg_penalty(item)>>

\* Python's order on tuples of three integers
TupleLess(a, b) ==
    \/ a[1] < b[1]
    \/ a[1] = b[1] /\ a[2] < b[2]
    \/ a[1] = b[1] /\ a[2] = b[2] /\ a[3] < b[3]

RECURSIVE InsertDesc(_, _)
\* r goes behind every entry whose key is not smaller than its own
InsertDesc(sorted, r) ==
    IF sorted = <<>> THEN <<r>>
    ELSE IF TupleLess(rank(Head(sorted)), rank(r))
         THEN <<r>> \o sorted
         ELSE <<Head(sorted)>> \o InsertDesc(Tail(sorted), r)

RECURSIVE SortLoop(_, _)
SortLoop(rest, sorted) ==
    IF rest = <<>> THEN sorted
    ELSE SortLoop(Tail(rest), InsertDesc(sorted, Head(rest)))

\* results.sort(key=rank, reverse=True): stable, greatest key first
SortByRank(rs) == SortLoop(rs, <<>>)

\* the page loop over results instead of results[:max_pages]
PageBudget_no_slice(rs, max_pages) == rs

\* results[:max_pages]
PageBudget(rs, max_pages) == SubSeq(rs, 1, Min(Len(rs), max_pages))

---------------------------------------------------------------------------
(* Presence, scoring, report *)

\* spider_present without the forced override
spider_present_no_override(imdb, wiki, webs, imdb_id) ==
    IF imdb.core_hits # <<>> THEN TRUE
    ELSE IF wiki.core_hits # <<>> THEN TRUE
    ELSE \E i \in 1..Len(webs) : webs[i].core_hits # <<>>

\* spider_present with all() for any() over the web records
spider_present_all(imdb, wiki, webs, imdb_id) ==
    IF imdb_id \in DOMAIN FORCED_SPIDER_PRESENCE
    THEN FORCED_SPIDER_PRESENCE[imdb_id]
    ELSE IF imdb.core_hits # <<>> THEN TRUE
    ELSE IF wiki.core_hits # <<>> THEN TRUE
    ELSE \A i \in 1..Len(webs) : webs[i].core_hits # <<>>

\* spider_present counting only records that are not deceased
spider_present_alive_only(imdb, wiki, webs, imdb_id) ==
    IF imdb_id \in DOMAIN FORCED_SPIDER_PRESENCE
    THEN FORCED_SPIDER_PRESENCE[imdb_id]
    ELSE IF imdb.core_hits # <<>> /\ ~imdb.deceased THEN TRUE
    ELSE IF wiki.core_hits # <<>> /\ ~wiki.deceased THEN TRUE
    ELSE \E i \in 1..Len(webs) : webs[i].core_hits # <<>> /\ ~webs[i].deceased

spider_present(imdb, wiki, webs, imdb_id) ==
    IF imdb_id \in DOMAIN FORCED_SPIDER_PRESENCE
    THEN FORCED_SPIDER_PRESENCE[imdb_id]
    ELSE IF imdb.core_hits # <<>> THEN TRUE
    ELSE IF wiki.core_hits # <<>> THEN TRUE
    ELSE \E i \in 1..Len(webs) : webs[i].core_hits # <<>>

\* score_confidence with sev_total % 4 for sev_total // 4
score_confidence_mod(imdb, wiki, webs) ==
    LET s1 == IF imdb.ok /\ imdb.core_hits # <<>> THEN 7 ELSE 0
        s2 == IF wiki.ok /\ wiki.core_hits # <<>> THEN 4 ELSE 0
        s3 == Min(6, Len(webs))
        sev_total == imdb.severity + wiki.severity
                        + SumSeq([i \in 1..Len(webs) |-> webs[i].severity])
        score == s1 + s2 + s3 + Min(4, sev_total % 4)
    IN  IF score >= 12 THEN <<"high", score>>
        ELSE IF score >= 6 THEN <<"medium", score>>
        ELSE <<"low", score>>

score_confidence(imdb, wiki, webs) ==
    LET s1 == IF imdb.ok /\ imdb.core_hits # <<>> THEN 7 ELSE 0
        s2 == IF wiki.ok /\ wiki.core_hits # <<>> THEN 4 ELSE 0
        s3 == Min(6, Len(webs))
        sev_total == imdb.severity + wiki.severity
                        + SumSeq([i \in 1..Len(webs) |-> webs[i].severity])
        score == s1 + s2 + s3 + Min(4, sev_total \div 4)
    IN  IF score >= 12 THEN <<"high", score>>
        ELSE IF score >= 6 THEN <<"medium", score>>
        ELSE <<"low", score>>

\* severity_label with `if not any_alive` for `if spider_evs and not any_alive`
severity_label_no_guard(imdb, wiki, webs, present) ==
    LET all_evs == <<imdb, wiki>> \o webs
        spider_evs == SelectSeq(all_evs, LAMBDA e : e.core_hits # <<>>)
        any_eye_alive ==
            \E i \in 1..Len(spider_evs) :
                spider_evs[i].eye_context /\ ~spider_evs[i].deceased
        any_alive ==
            \E i \in 1..Len(spider_evs) :
                spider_evs[i].core_hits # <<>> /\ ~spider_evs[i].deceased
        label == IF ~any_alive THEN "deceased-only"
                 ELSE IF present THEN "present"
                 ELSE "none"
    IN  IF any_eye_alive /\ label \in {"present"} THEN "present+eye-closeups"
        ELSE label

\* severity_label with the eye upgrade applied to any label
severity_label_upgrade_any(imdb, wiki, webs, present) ==
    LET all_evs == <<imdb, wiki>> \o webs
        spider_evs == SelectSeq(all_evs, LAMBDA e : e.core_hits # <<>>)
        any_eye_alive ==
            \E i \in 1..Len(spider_evs) :
                spider_evs[i].eye_context /\ ~spider_evs[i].deceased
        any_alive ==
            \E i \in 1..Len(spider_evs) :
                spider_evs[i].core_hits # <<>> /\ ~spider_evs[i].deceased
        label == IF spider_evs # <<>> /\ ~any_alive THEN "deceased-only"
                 ELSE IF present THEN "present"
                 ELSE "none"
    IN  IF any_eye_alive THEN "present+eye-closeups"
        ELSE label

\* the severity label of build_report
severity_label(imdb, wiki, webs, present) ==
    LET all_evs == <<imdb, wiki>> \o webs
        spider_evs == SelectSeq(all_evs, LAMBDA e : e.core_hits # <<>>)
        any_eye_alive ==
            \E i \in 1..Len(spider_evs) :
                spider_evs[i].eye_context /\ ~spider_evs[i].deceased
        any_alive ==
            \E i \in 1..Len(spider_evs) :
                spider_evs[i].core_hits # <<>> /\ ~spider_evs[i].deceased
        label == IF spider_evs # <<>> /\ ~any_alive THEN "deceased-only"
                 ELSE IF present THEN "present"
                 ELSE "none"
    IN  IF any_eye_alive /\ label \in {"present"} THEN "present+eye-closeups"
        ELSE label

\* build_report with the web records appended to the evidence list
build_report_all_evs(m, imdb, wiki, webs) ==
    LET present == spider_present(imdb, wiki, webs, m.imdb_id)
        cs == score_confidence(imdb, wiki, webs)
    IN  [movie |-> m,
         present |-> present,
         confidence |-> cs[1],
         score |-> cs[2],
         severity |-> severity_label(imdb, wiki, webs, present),
         evidence |-> <<imdb, wiki>> \o webs,
         web_evidence |-> webs]

\* the dict build_report returns, from the three providers' results
build_report(m, imdb, wiki, webs) ==
    LET present == spider_present(imdb, wiki, webs, m.imdb_id)
        cs == score_confidence(imdb, wiki, webs)
    IN  [movie |-> m,
         present |-> present,
         confidence |-> cs[1],
         score |-> cs[2],
         severity |-> severity_label(imdb, wiki, webs, present),
         evidence |-> <<imdb, wiki>>,
         web_evidence |-> webs]

---------------------------------------------------------------------------
(* Inputs of the report pipeline *)

\* page texts: no core term; alive with a support term; deceased; alive
\* with eye context and a severity term
ReportTexts == {<<"the">>, <<"spider", "webs">>, <<"dead", "spider">>,
                <<"giant", "spider", "eyes">>}

Url(h, p) == [host |-> h, path |-> p]

Hit(t, u) == [title |-> t, url |-> u, snippet |-> <<>>]

ImdbA == Url(<<"www", "imdb", "com">>, "a")

ExampleA == Url(<<"example", "com">>, "a")

ExampleB == Url(<<"example", "com">>, "b")

WikiA == Url(<<"en", "wikipedia", "org">>, "a")

\* the {title, url, snippet} results the search backend may return
WebHits ==
    {Hit(<<"the">>, ImdbA), Hit(<<"spider-man">>, ImdbA),
     Hit(<<"the">>, ExampleA), Hit(<<"spider">>, ExampleA),
     Hit(<<"spider-man">>, ExampleB), Hit(<<"spider">>, WikiA),
     Hit(<<"spider">>, NoUrl)}

\* the concatenated results of the queries, in the report pipeline
ReportSearches ==
    {<<>>,
     <<Hit(<<"the">>, ExampleA), Hit(<<"spider">>, ImdbA)>>,
     <<Hit(<<"spider">>, ExampleA), Hit(<<"spider">>, NoUrl),
       Hit(<<"the">>, ExampleA), Hit(<<"spider-man">>, ImdbA),
       Hit(<<"spider">>, WikiA)>>}

\* the page texts of the web-search study
WebTexts == {<<"the">>, <<"spider">>}

\* the number of page-name candidates wikipedia_evidence tries
NumCandidates == 3

Unset == [source |-> "unset"]

---------------------------------------------------------------------------
(* build_report, one provider call or loop turn per step *)

Init ==
    /\ pc = "imdb"
    /\ movie \in [title : {"T"}, year : {"2009"}, imdb_id : ImdbIds]
    /\ imdb_ev = Unset
    /\ wiki_i = 1
    /\ wiki_ev = Unset
    /\ raw_results = <<>>
    /\ results = <<>>
    /\ page_i = 1
    /\ web_evs = <<>>
    /\ fetch_log = <<>>
    /\ report = Unset
    /\ inp = Unset
    /\ rec = Unset

\* imdb_ev = imdb_parental_guide_evidence(movie["imdb_id"])
ParentalGuide(bodies) ==
    /\ pc = "imdb"
    /\ \E resp \in Responses(bodies) :
          /\ imdb_ev' = imdb_parental_guide_evidence(movie.imdb_id, fetch(resp))
          /\ fetch_log' = Append(fetch_log,
                                 [url |-> PgUrl(movie.imdb_id), ok |-> resp.status = 200,
                                  text |-> resp.text])
    /\ pc' = "wiki"
    /\ UNCHANGED <<movie, wiki_i, wiki_ev, raw_results, results, page_i, web_evs,
                   report, inp, rec>>

\* one candidate of wikipedia_evidence
WikiLookup(texts) ==
    /\ pc = "wiki"
    /\ wiki_i <= NumCandidates
    /\ \E data \in WikiResponses(texts) :
          LET r == wikipedia_candidate(data) IN
          IF r # Continue
          THEN /\ wiki_ev' = r[1]
               /\ pc' = "search"
               /\ wiki_i' = wiki_i
          ELSE /\ wiki_i' = wiki_i + 1
               /\ UNCHANGED <<wiki_ev, pc>>
    /\ UNCHANGED <<movie, imdb_ev, raw_results, results, page_i, web_evs,
                   fetch_log, report, inp, rec>>

\* wikipedia_evidence falls out of its loop
WikiExhausted ==
    /\ pc = "wiki"
    /\ wiki_i > NumCandidates
    /\ wiki_ev' = wikipedia_unavailable
    /\ pc' = "search"
    /\ UNCHANGED <<movie, imdb_ev, wiki_i, raw_results, results, page_i, web_evs,
                   fetch_log, report, inp, rec>>

\* search_and_fetch_evidence up to results.sort
Search(raws) ==
    /\ pc = "search"
    /\ \E raw \in raws :
          /\ raw_results' = raw
          /\ results' = SortByRank(Dedup(raw))
    /\ page_i' = 1
    /\ web_evs' = <<>>
    /\ pc' = "pages"
    /\ UNCHANGED <<movie, imdb_ev, wiki_i, wiki_ev, fetch_log, report, inp, rec>>

\* one turn of `for r in results[:max_pages]`
FetchPage(bodies) ==
    /\ pc = "pages"
    /\ page_i <= Len(PageBudget(results, MaxPages))
    /\ \E resp \in Responses(bodies) :
          LET r == PageBudget(results, MaxPages)[page_i]
              e == web_page_evidence(r, fetch(resp))
          IN  /\ web_evs' = IF e = Continue THEN web_evs ELSE Append(web_evs, e[1])
              /\ fetch_log' = Append(fetch_log, [url |-> r.url, ok |-> resp.status = 200,
                                                  text |-> resp.text])
    /\ page_i' = page_i + 1
    /\ UNCHANGED <<pc, movie, imdb_ev, wiki_i, wiki_ev, raw_results, results,
                   report, inp, rec>>

\* return evidences
ReturnEvidences ==
    /\ pc = "pages"
    /\ page_i > Len(PageBudget(results, MaxPages))
    /\ pc' = "aggregate"
    /\ UNCHANGED <<movie, imdb_ev, wiki_i, wiki_ev, raw_results, results, page_i,
                   web_evs, fetch_log, report, inp, rec>>

\* build_report from `present = ...` to its return
Aggregate ==
    /\ pc = "aggregate"
    /\ report' = build_report(movie, imdb_ev, wiki_ev, web_evs)
    /\ pc' = "done"
    /\ UNCHANGED <<movie, imdb_ev, wiki_i, wiki_ev, raw_results, results, page_i,
                   web_evs, fetch_log, inp, rec>>

Next ==
    \/ ParentalGuide(ReportTexts)
    \/ WikiLookup(ReportTexts \cup {<<>>})
    \/ WikiExhausted
    \/ Search(ReportSearches)
    \/ FetchPage(ReportTexts)
    \/ ReturnEvidences
    \/ Aggregate

Spec == Init /\ [][Next]_vars

---------------------------------------------------------------------------
(* search_and_fetch_evidence alone, on every short list of search results *)

InitWeb ==
    /\ pc = "search"
    /\ movie = [title |-> "T", year |-> "2009", imdb_id |-> "tt0000001"]
    /\ imdb_ev = Unset
    /\ wiki_i = 1
    /\ wiki_ev = Unset
    /\ raw_results = <<>>
    /\ results = <<>>
    /\ page_i = 1
    /\ web_evs = <<>>
    /\ fetch_log = <<>>
    /\ report = Unset
    /\ inp = Unset
    /\ rec = Unset

NextWeb ==
    \/ Search(BoundedSeq(WebHits, MaxRaw))
    \/ FetchPage(WebTexts)
    \/ ReturnEvidences

SpecWeb == InitWeb /\ [][NextWeb]_vars

---------------------------------------------------------------------------
(* Each provider alone, on every short page text *)

\* summary extracts
Texts == BoundedSeq(Words, MaxTextLen)

InitProviders ==
    /\ pc = "study"
    /\ movie \in [title : {"T"}, year : {"2009"}, imdb_id : ImdbIds]
    /\ imdb_ev = Unset
    /\ wiki_i = 1
    /\ wiki_ev = Unset
    /\ raw_results = <<>>
    /\ results = <<>>
    /\ page_i = 1
    /\ web_evs = <<>>
    /\ fetch_log = <<>>
    /\ report = Unset
    /\ inp = Unset
    /\ rec = Unset

Emit(provider, response, record) ==
    /\ pc' = "emitted"
    /\ inp' = [provider |-> provider, response |-> response]
    /\ rec' = record
    /\ UNCHANGED <<movie, imdb_ev, wiki_i, wiki_ev, raw_results, results, page_i,
                   web_evs, fetch_log, report>>

StudyParentalGuide ==
    /\ pc = "study"
    /\ \E resp \in Responses(Htmls) :
          Emit("imdb", resp, imdb_parental_guide_evidence(movie.imdb_id, fetch(resp)))

\* a candidate of wikipedia_evidence yields a summary
StudyWikipedia ==
    /\ pc = "study"
    /\ \E data \in WikiResponses(Texts) :
          /\ wikipedia_candidate(data) # Continue
          /\ Emit("wikipedia", data, wikipedia_candidate(data)[1])

\* every candidate of wikipedia_evidence ends in `continue`
StudyWikipediaUnavailable ==
    /\ pc = "study"
    /\ \E data \in WikiResponses(Texts) :
          /\ wikipedia_candidate(data) = Continue
          /\ Emit("wikipedia", data, wikipedia_unavailable)

\* a turn of the page loop that appends a record
StudyWebPage ==
    /\ pc = "study"
    /\ \E r \in {h \in WebHits : ~NoHref(h.url)}, resp \in Responses(Htmls) :
          /\ web_page_evidence(r, fetch(resp)) # Continue
          /\ Emit("web_page", [status |-> resp.status, text |-> resp.text, url |-> r.url],
                  web_page_evidence(r, fetch(resp))[1])

NextProviders ==
    \/ StudyParentalGuide
    \/ StudyWikipedia
    \/ StudyWikipediaUnavailable
    \/ StudyWebPage

SpecProviders == InitProviders /\ [][NextProviders]_vars

---------------------------------------------------------------------------
(* Properties *)

\* both single-record providers have returned
Collected == pc \in {"pages", "aggregate", "done"}

\* some record among the three providers' has core hits
AnyCoreHit ==
    \/ imdb_ev.core_hits # <<>>
    \/ wiki_ev.core_hits # <<>>
    \/ \E i \in 1..Len(web_evs) : web_evs[i].core_hits # <<>>

\* the parental-guide fetch failed, every encyclopedia candidate failed and
\* the web-search provider produced no record
AllUnavailable ==
    /\ Collected
    /\ ~fetch_log[1].ok
    /\ wiki_i > NumCandidates
    /\ web_evs = <<>>

\* C1: for every identifier in the forced-override table, spider_present
\* returns the table's value whatever the evidence records are, and so does
\* the report of a movie with such an identifier.
C1_ForcedOverride ==
    Collected =>
        /\ \A id \in DOMAIN FORCED_SPIDER_PRESENCE :
              spider_present(imdb_ev, wiki_ev, web_evs, id) = FORCED_SPIDER_PRESENCE[id]
        /\ (pc = "done" /\ movie.imdb_id \in DOMAIN FORCED_SPIDER_PRESENCE) =>
              report.present = FORCED_SPIDER_PRESENCE[movie.imdb_id]

\* a forced movie reported present although every provider was unavailable
C1_Witness ==
    /\ pc = "done"
    /\ movie.imdb_id \in DOMAIN FORCED_SPIDER_PRESENCE
    /\ AllUnavailable
    /\ ~imdb_ev.ok /\ ~wiki_ev.ok
    /\ ~AnyCoreHit
    /\ report.present = TRUE

\* C2: a record a provider emits with empty core_hits has empty
\* support_hits and snippets, severity 0 and both context flags false.
C2_EmptyCoreInvariant ==
    pc = "emitted" =>
        (rec.core_hits = <<>> =>
            /\ rec.support_hits = <<>>
            /\ rec.snippets = <<>>
            /\ rec.severity = 0
            /\ rec.deceased = FALSE
            /\ rec.eye_context = FALSE)

\* a fetched page with support, deceased and eye terms but no core term
C2_Witness ==
    /\ pc = "emitted"
    /\ inp.provider = "imdb"
    /\ inp.response.status = 200
    /\ inp.response.text = <<"webs", "dead", "eyes">>
    /\ rec.ok
    /\ rec.core_hits = <<>>

AllCoreDeceased(evs) ==
    /\ \E i \in 1..Len(evs) : evs[i].core_hits # <<>>
    /\ \A i \in 1..Len(evs) : evs[i].core_hits # <<>> => evs[i].deceased

\* C4: the severity label is deceased-only exactly when some record has
\* core hits and every record with core hits is deceased, whatever present
\* is.
C4_DeceasedOnly ==
    /\ Collected =>
          \A p \in BOOLEAN :
              severity_label(imdb_ev, wiki_ev, web_evs, p) = "deceased-only"
                  <=> AllCoreDeceased(<<imdb_ev, wiki_ev>> \o web_evs)
    /\ pc = "done" =>
          (report.severity = "deceased-only"
              <=> AllCoreDeceased(report.evidence \o report.web_evidence))

\* a report with present = true labelled deceased-only
C4_Witness ==
    /\ pc = "done"
    /\ report.present = TRUE
    /\ report.severity = "deceased-only"
    /\ Len(web_evs) >= 1

TierRank(c) == CASE c = "low" -> 0 [] c = "medium" -> 1 [] c = "high" -> 2

\* C5: a step that appends one web-page record with core hits to the web
\* list lowers neither the score nor the confidence tier.
C5_Monotone ==
    [][(/\ Collected
        /\ Len(web_evs') = Len(web_evs) + 1
        /\ SubSeq(web_evs', 1, Len(web_evs)) = web_evs
        /\ web_evs'[Len(web_evs')].core_hits # <<>>
        /\ web_evs'[Len(web_evs')].severity >= 0)
       => /\ score_confidence(imdb_ev, wiki_ev, web_evs')[2]
                >= score_confidence(imdb_ev, wiki_ev, web_evs)[2]
          /\ TierRank(score_confidence(imdb_ev, wiki_ev, web_evs')[1])
                >= TierRank(score_confidence(imdb_ev, wiki_ev, web_evs)[1])]_vars

\* the second web record has just been appended, and the first kept the
\* tier at medium while the second lifts it to high
C5_Witness ==
    /\ pc = "pages"
    /\ Len(web_evs) = 2
    /\ score_confidence(imdb_ev, wiki_ev, SubSeq(web_evs, 1, 1))[1] = "medium"
    /\ score_confidence(imdb_ev, wiki_ev, web_evs)[1] = "high"
    /\ score_confidence(imdb_ev, wiki_ev, web_evs)[2]
          > score_confidence(imdb_ev, wiki_ev, SubSeq(web_evs, 1, 1))[2]

\* C6: for an identifier outside the forced-override table spider_present
\* is true exactly when some record has core hits.
C6_PresentIffCore ==
    /\ Collected =>
          \A id \in ImdbIds \ DOMAIN FORCED_SPIDER_PRESENCE :
              spider_present(imdb_ev, wiki_ev, web_evs, id) = AnyCoreHit
    /\ (pc = "done" /\ movie.imdb_id \notin DOMAIN FORCED_SPIDER_PRESENCE) =>
          report.present = AnyCoreHit

\* present although the only core hits are on a deceased web page of
\* severity 0 and the two other providers were unavailable
C6_Witness ==
    /\ pc = "done"
    /\ movie.imdb_id \notin DOMAIN FORCED_SPIDER_PRESENCE
    /\ ~imdb_ev.ok /\ ~wiki_ev.ok
    /\ Len(web_evs) = 1
    /\ web_evs[1].deceased /\ web_evs[1].severity = 0
    /\ report.present = TRUE

WebLog == SelectSeq(fetch_log, LAMBDA e : e.url # PgUrl(movie.imdb_id))

\* a logged fetch returned a page whose text has a core term
FetchedWithCore(e) == e.ok /\ has_any(clean_text(e.text), CORE_SPIDER_TERMS)

\* results holds one entry per URL of raw_results, its first occurrence
FirstOccurrences ==
    /\ \A i, j \in 1..Len(results) : i # j => results[i].url # results[j].url
    /\ \A i \in 1..Len(results) :
          /\ ~NoHref(results[i].url)
          /\ \E k \in 1..Len(raw_results) :
                /\ raw_results[k] = results[i]
                /\ \A m \in 1..(k - 1) : raw_results[m].url # results[i].url
    /\ \A k \in 1..Len(raw_results) :
          ~NoHref(raw_results[k].url) =>
              \E i \in 1..Len(results) : results[i].url = raw_results[k].url

\* C8: pages are fetched only for the first max_pages entries of the
\* deduplicated ranked list, once each and in rank order, and the records
\* returned are those of the fetched pages with core hits, in rank order.
C8_PageBudget ==
    pc \in {"pages", "aggregate"} =>
        LET first == SubSeq(results, 1, Min(Len(results), MaxPages)) IN
        /\ FirstOccurrences
        /\ Len(WebLog) = page_i - 1
        /\ Len(WebLog) <= Len(first)
        /\ \A k \in 1..Len(WebLog) : WebLog[k].url = first[k].url
        /\ [i \in 1..Len(web_evs) |-> web_evs[i].url]
              = [i \in 1..Len(SelectSeq(WebLog, FetchedWithCore)) |->
                    SelectSeq(WebLog, FetchedWithCore)[i].url]
        /\ pc = "aggregate" => Len(WebLog) = Len(first)

\* the provider returned with a longer ranked list than its budget, having
\* skipped the first page and kept the second, from results with a repeat
C8_Witness ==
    /\ pc = "aggregate"
    /\ Len(results) > MaxPages
    /\ Len(raw_results) > Len(results)
    /\ Len(WebLog) = MaxPages
    /\ ~WebLog[1].ok
    /\ Len(web_evs) = 1
    /\ web_evs[1].url = results[2].url

\* the URL's host, "www." removed, is a key of PREFERRED_DOMAINS
PreferredHost(url) == HostOf(url) \in DOMAIN PREFERRED_DOMAINS

\* a core term occurs in the result's title and snippet
CorePresence(item) == has_any(item.title \o item.snippet, CORE_SPIDER_TERMS)

\* C9: of two ranked results with the same core-term presence, one on a
\* preferred domain and one not, the preferred one comes first.
C9_PreferredFirst ==
    pc \in {"pages", "aggregate"} =>
        \A i, j \in 1..Len(results) :
            (/\ CorePresence(results[i]) = CorePresence(results[j])
             /\ PreferredHost(results[i].url)
             /\ ~PreferredHost(results[j].url))
            => i < j

\* a preferred result with negative context ranked before a clean result
\* that the backend had returned first
C9_Witness ==
    /\ pc = "pages"
    /\ Len(results) = 2
    /\ PreferredHost(results[1].url) /\ ~PreferredHost(results[2].url)
    /\ CorePresence(results[1]) /\ CorePresence(results[2])
    /\ neg_penalty(results[1]) = 1 /\ neg_penalty(results[2]) = 0
    /\ raw_results = <<results[2], results[1]>>

\* the bonus a provider adds to the raw severity
SourceBonus(r) ==
    CASE r.source = "imdb_parentalguide" -> 0
      [] r.source = "wikipedia" -> 2
      [] r.source = "web_page" -> domain_weight(r.url)

\* C10: an emitted record with core hits has severity 0 when deceased, and
\* otherwise the raw severity of its snippets plus its source bonus plus 3
\* when eye_context holds.
C10_SeverityFinal ==
    (pc = "emitted" /\ rec.core_hits # <<>>) =>
        /\ rec.deceased => rec.severity = 0
        /\ ~rec.deceased =>
              rec.severity = severity_score(Concat(rec.snippets)) + SourceBonus(rec)
                                + (IF rec.eye_context THEN 3 ELSE 0)

\* a deceased page with eye context on a preferred domain, severity 0
C10_Witness ==
    /\ pc = "emitted"
    /\ rec.source = "web_page"
    /\ rec.core_hits # <<>>
    /\ rec.deceased /\ rec.eye_context
    /\ domain_weight(rec.url) > 0
    /\ rec.severity = 0

\* some record with core hits has eye context and is not deceased
AnyEyeAlive(evs) ==
    \E i \in 1..Len(evs) :
        evs[i].core_hits # <<>> /\ evs[i].eye_context /\ ~evs[i].deceased

\* C11: the severity label is present+eye-closeups exactly when present is
\* true and some record with core hits has eye context and is not deceased;
\* it is never that label when present is false or when every record with
\* core hits is deceased.
C11_EyeCloseups ==
    /\ Collected =>
          \A p \in BOOLEAN :
              LET label == severity_label(imdb_ev, wiki_ev, web_evs, p)
                  evs == <<imdb_ev, wiki_ev>> \o web_evs
              IN  /\ label = "present+eye-closeups" <=> (p /\ AnyEyeAlive(evs))
                  /\ ~p => label # "present+eye-closeups"
                  /\ AllCoreDeceased(evs) => label # "present+eye-closeups"
    /\ pc = "done" =>
          (report.severity = "present+eye-closeups"
              <=> (report.present /\ AnyEyeAlive(report.evidence \o report.web_evidence)))

\* a report labelled present+eye-closeups whose only eye-context record is
\* a web page, next to a deceased parental-guide record
C11_Witness ==
    /\ pc = "done"
    /\ report.present = TRUE
    /\ report.severity = "present+eye-closeups"
    /\ imdb_ev.core_hits # <<>> /\ imdb_ev.deceased
    /\ ~wiki_ev.eye_context
    /\ \E i \in 1..Len(web_evs) : web_evs[i].eye_context /\ ~web_evs[i].deceased

===========================================================================
